---- MODULE Spec2Model ----
(***************************************************************************)
(* Knowledge Graph Generator (src/app.py): one run of the Streamlit script *)
(* -- content selection, the Generate guard, the remote model call,        *)
(* parse_relations, build_graph and the render/banner tail.                *)
(*                                                                         *)
(* Texts are sequences of characters.  The characters "T" and "M" each     *)
(* abbreviate the text of one JSON object ({"subject": ...}); such a text  *)
(* holds no '[' and ends with '}'.  "0" and "5" are digits, " " is         *)
(* whitespace and "x" any other prose character.                           *)
(***************************************************************************)
EXTENDS Integers, Sequences, FiniteSets, TLC

VARIABLES pc, input_type, fetch, content, clicked, banners, calls,
          response_text, triples, graph, i, stages, error

vars == <<pc, input_type, fetch, content, clicked, banners, calls,
          response_text, triples, graph, i, stages, error>>

\* ------------------------------------------------------------------ bounds
MaxLen == 5
MaxResp == 3
MaxContent == 1
MaxTriples == 3

\* ------------------------------------------------------------- characters
Chars == {"[", "]", ",", " ", "0", "5", "x", "T", "M"}
ObjChars == {"T", "M"}
Digits == {"0", "5"}
ContentChars == {" ", "x"}

Texts(n) == UNION {[1..k -> Chars] : k \in 0..n}
Contents(n) == UNION {[1..k -> ContentChars] : k \in 0..n}

\* ------------------------------------------------------------ JSON values
NoValue == [t |-> "none", v |-> 0]
EmptyList == [t |-> "list", v |-> <<>>]
IntValue(n) == [t |-> "int", v |-> n]
ListValue(s) == [t |-> "list", v |-> s]
ObjValue(o) == [t |-> "obj", v |-> o]

\* the object a JSON object text decodes to
ObjOf(c) ==
  IF c = "T" THEN [subject |-> "a", relation |-> "r", object |-> "b"]
  ELSE [subject |-> "a", relation |-> "r"]

\* --------------------------------------------------------------- str ops
\* str.find(c): 0-based index of the first occurrence, -1 when absent
Find(s, c) ==
  IF \E k \in 1..Len(s) : s[k] = c
  THEN (CHOOSE k \in 1..Len(s) : s[k] = c /\ \A j \in 1..(k-1) : s[j] # c) - 1
  ELSE -1

\* the last character of the text a character of the model stands for
LastChar(c) == IF c \in ObjChars THEN "}" ELSE c

\* s[k:] -- k >= 0 counts from the start; k = -1 is the last character
SliceFrom(s, k) ==
  IF k >= 0 THEN SubSeq(s, k + 1, Len(s))
  ELSE IF Len(s) = 0 THEN <<>>
  ELSE <<LastChar(s[Len(s)])>>

\* str.strip() on content: drop leading and trailing whitespace
RECURSIVE LStrip(_)
LStrip(s) == IF s # <<>> /\ Head(s) = " " THEN LStrip(Tail(s)) ELSE s
RECURSIVE RStrip(_)
RStrip(s) ==
  IF s # <<>> /\ s[Len(s)] = " " THEN RStrip(SubSeq(s, 1, Len(s) - 1)) ELSE s
Strip(s) == RStrip(LStrip(s))

\* ------------------------------------------------------------ json.loads
Fail == [ok |-> FALSE, v |-> NoValue, pos |-> 0]

DigitValue(c) == IF c = "5" THEN 5 ELSE 0

\* the end of the whitespace that starts at p
RECURSIVE SkipWs(_, _)
SkipWs(s, p) == IF p <= Len(s) /\ s[p] = " " THEN SkipWs(s, p + 1) ELSE p

\* the digits that follow a leading non-zero digit
RECURSIVE ScanDigits(_, _, _)
ScanDigits(s, p, acc) ==
  IF p <= Len(s) /\ s[p] \in Digits
  THEN ScanDigits(s, p + 1, acc * 10 + DigitValue(s[p]))
  ELSE [ok |-> TRUE, v |-> IntValue(acc), pos |-> p]

\* a number is 0, or a non-zero digit and the digits after it
ScanNumber(s, p) ==
  IF s[p] = "0" THEN [ok |-> TRUE, v |-> IntValue(0), pos |-> p + 1]
  ELSE ScanDigits(s, p, 0)

\* scan_once: the value that starts exactly at p
RECURSIVE ScanOnce(_, _), ScanArray(_, _, _)
ScanOnce(s, p) ==
  IF p > Len(s) THEN Fail
  ELSE IF s[p] \in Digits THEN ScanNumber(s, p)
  ELSE IF s[p] \in ObjChars THEN [ok |-> TRUE, v |-> ObjValue(ObjOf(s[p])), pos |-> p + 1]
  ELSE IF s[p] = "["
       THEN LET q == SkipWs(s, p + 1) IN
            IF q <= Len(s) /\ s[q] = "]"
            THEN [ok |-> TRUE, v |-> EmptyList, pos |-> q + 1]
            ELSE ScanArray(s, q, <<>>)
  ELSE Fail

\* the elements of a non-empty array, from an element at p to the ']'
ScanArray(s, p, acc) ==
  LET e == ScanOnce(s, p)
      q == SkipWs(s, e.pos) IN
  IF ~e.ok THEN Fail
  ELSE IF q > Len(s) THEN Fail
  ELSE IF s[q] = "," THEN ScanArray(s, SkipWs(s, q + 1), Append(acc, e.v))
  ELSE IF s[q] = "]"
       THEN [ok |-> TRUE, v |-> ListValue(Append(acc, e.v)), pos |-> q + 1]
  ELSE Fail

\* json.loads: whitespace, one value, whitespace and the end of the text;
\* anything else is a JSONDecodeError
JsonLoads(s) ==
  LET r == ScanOnce(s, SkipWs(s, 1)) IN
  IF r.ok /\ SkipWs(s, r.pos) = Len(s) + 1
  THEN [ok |-> TRUE, v |-> r.v] ELSE [ok |-> FALSE, v |-> NoValue]

\* ------------------------------------------------------- parse_relations
ParseRelationsNoTrim(text) ==
  LET r == JsonLoads(text) IN
  IF r.ok THEN [value |-> r.v, failed |-> FALSE]
  ELSE [value |-> EmptyList, failed |-> TRUE]

ParseRelations(text) ==
  LET r == JsonLoads(SliceFrom(text, Find(text, "["))) IN
  IF r.ok THEN [value |-> r.v, failed |-> FALSE]
  ELSE [value |-> EmptyList, failed |-> TRUE]

\* Python truthiness of a decoded value (if triples:)
Truthy(val) ==
  IF val.t = "list" THEN Len(val.v) > 0
  ELSE IF val.t = "int" THEN val.v # 0
  ELSE IF val.t = "obj" THEN DOMAIN val.v # {}
  ELSE FALSE

\* ----------------------------------------------------------- build_graph
EmptyGraph == [nodes |-> {}, adj |-> <<>>]

\* DiGraph.add_node: a node that is present stays as it is
AddNode(g, n) == [g EXCEPT !.nodes = @ \cup {n}]

\* DiGraph.add_edge: both ends become nodes; the edge (u, v) is keyed by its
\* ends, so adding it again replaces its label
AddEdge(g, u, v, label) ==
  [nodes |-> g.nodes \cup {u, v},
   adj |-> [e \in (DOMAIN g.adj) \cup {<<u, v>>} |->
              IF e = <<u, v>> THEN label ELSE g.adj[e]]]

\* a variant that skips an entry it cannot use
AddTripleSkipping(g, item) ==
  IF item.t = "obj" /\ {"subject", "relation", "object"} \subseteq DOMAIN item.v
  THEN [g |-> AddEdge(AddNode(AddNode(g, item.v.subject), item.v.object),
                      item.v.subject, item.v.object, item.v.relation),
        err |-> "none"]
  ELSE [g |-> g, err |-> "none"]

\* a variant that also makes the relation a node
AddTripleRelationNode(g, item) ==
  [g |-> AddEdge(AddNode(AddNode(AddNode(g, item.v.subject), item.v.relation), item.v.object),
                 item.v.subject, item.v.object, item.v.relation),
   err |-> "none"]

\* the loop body, lines 54-56, for one item of the list
AddTriple(g, item) ==
  IF item.t # "obj" THEN [g |-> g, err |-> "TypeError"]
  ELSE IF "subject" \notin DOMAIN item.v THEN [g |-> g, err |-> "KeyError"]
  ELSE LET g1 == AddNode(g, item.v.subject) IN
       IF "object" \notin DOMAIN item.v THEN [g |-> g1, err |-> "KeyError"]
       ELSE LET g2 == AddNode(g1, item.v.object) IN
            IF "relation" \notin DOMAIN item.v THEN [g |-> g2, err |-> "KeyError"]
            ELSE [g |-> AddEdge(g2, item.v.subject, item.v.object, item.v.relation),
                  err |-> "none"]

\* --------------------------------------------------- the script, one run
\* line 116: st.radio
ChooseInputType ==
  /\ pc = "radio"
  /\ \E m \in {"text", "pdf", "url"} :
       /\ input_type' = m
       /\ pc' = m
  /\ UNCHANGED <<fetch, content, clicked, banners, calls, response_text,
                 triples, graph, i, stages, error>>

\* lines 120-121: the text area's value is the content
TextInput ==
  /\ pc = "text"
  /\ \E t \in Contents(MaxContent) : content' = t
  /\ pc' = "button"
  /\ UNCHANGED <<input_type, fetch, clicked, banners, calls, response_text,
                 triples, graph, i, stages, error>>

\* lines 123-126: no file, a readable PDF, or bytes fitz.open rejects
UploadPdf ==
  /\ pc = "pdf"
  /\ \E f \in {"nofile", "readable", "unreadable"} :
       \E t \in Contents(MaxContent) :
         /\ content' = IF f = "readable" THEN t ELSE content
         /\ pc' = IF f = "unreadable" THEN "crashed" ELSE "button"
         /\ error' = IF f = "unreadable" THEN "PdfError" ELSE error
  /\ UNCHANGED <<input_type, fetch, clicked, banners, calls, response_text,
                 triples, graph, i, stages>>

\* extract_text_from_url, lines 99-102: requests.get raises on a network
\* failure or a timeout; any response it returns, whatever its status, is
\* parsed and the text of its <p> elements returned
ExtractTextFromUrl(outcome, body) ==
  IF outcome = "raised" THEN [raised |-> TRUE, text |-> <<>>]
  ELSE [raised |-> FALSE, text |-> body]

\* lines 128-134: no URL, or a fetch whose exception is caught and shown
UrlInput ==
  /\ pc = "url"
  /\ \E o \in {"nourl", "raised", "2xx", "non2xx"} :
       \E body \in Contents(MaxContent) :
         LET r == ExtractTextFromUrl(o, body) IN
         /\ fetch' = o
         /\ content' = IF o = "nourl" \/ r.raised THEN content ELSE r.text
         /\ banners' = IF o # "nourl" /\ r.raised
                       THEN banners \cup {"url_error"} ELSE banners
  /\ pc' = "button"
  /\ UNCHANGED <<input_type, clicked, calls, response_text,
                 triples, graph, i, stages, error>>

\* line 137: st.button is true in the run the click started
Button ==
  /\ pc = "button"
  /\ \E c \in BOOLEAN :
       /\ clicked' = c
       /\ pc' = IF c THEN "guard" ELSE "done"
  /\ UNCHANGED <<input_type, fetch, content, banners, calls, response_text,
                 triples, graph, i, stages, error>>

NeverBlank(c) == FALSE

\* line 138: not content.strip()
IsBlank(c) == Strip(c) = <<>>

\* lines 138-141
Guard ==
  /\ pc = "guard"
  /\ IF IsBlank(content)
     THEN /\ banners' = banners \cup {"empty_warning"}
          /\ pc' = "done"
     ELSE /\ pc' = "call"
          /\ UNCHANGED banners
  /\ UNCHANGED <<input_type, fetch, content, clicked, calls, response_text,
                 triples, graph, i, stages, error>>

\* a variant that calls the model again after a failure
CallModelRetrying ==
  /\ pc = "call"
  /\ calls < 2
  /\ calls' = calls + 1
  /\ stages' = stages \cup {"extractor"}
  /\ \E ok \in BOOLEAN :
       IF ok
       THEN /\ \E txt \in Texts(MaxResp) : response_text' = txt
            /\ pc' = "parse"
            /\ UNCHANGED error
       ELSE /\ pc' = IF calls' < 2 THEN "call" ELSE "crashed"
            /\ error' = IF calls' < 2 THEN error ELSE "RemoteError"
            /\ UNCHANGED response_text
  /\ UNCHANGED <<input_type, fetch, content, clicked, banners,
                 triples, graph, i>>

\* line 142, extract_relations_gemini: one generate_content call, which
\* returns some text or raises
CallModel ==
  /\ pc = "call"
  /\ calls' = calls + 1
  /\ stages' = stages \cup {"extractor"}
  /\ \E ok \in BOOLEAN :
       IF ok
       THEN /\ \E txt \in Texts(MaxResp) : response_text' = txt
            /\ pc' = "parse"
            /\ UNCHANGED error
       ELSE /\ pc' = "crashed"
            /\ error' = "RemoteError"
            /\ UNCHANGED response_text
  /\ UNCHANGED <<input_type, fetch, content, clicked, banners,
                 triples, graph, i>>

\* line 143, parse_relations
Parse ==
  /\ pc = "parse"
  /\ LET r == ParseRelations(response_text) IN
       /\ triples' = r.value
       /\ banners' = IF r.failed THEN banners \cup {"parse_error"} ELSE banners
  /\ stages' = stages \cup {"parser"}
  /\ pc' = "branch"
  /\ UNCHANGED <<input_type, fetch, content, clicked, calls, response_text,
                 graph, i, error>>

\* lines 145 and 150-151
Branch ==
  /\ pc = "branch"
  /\ IF Truthy(triples)
     THEN /\ pc' = "build"
          /\ UNCHANGED banners
     ELSE /\ banners' = banners \cup {"no_relationships"}
          /\ pc' = "done"
  /\ UNCHANGED <<input_type, fetch, content, clicked, calls, response_text,
                 triples, graph, i, stages, error>>

\* line 52: graph = nx.DiGraph()
BuildGraphInit ==
  /\ pc = "build"
  /\ graph' = EmptyGraph
  /\ i' = 1
  /\ stages' = stages \cup {"builder"}
  /\ pc' = "loop"
  /\ UNCHANGED <<input_type, fetch, content, clicked, banners, calls,
                 response_text, triples, error>>

\* lines 53-57: one turn of the for loop, or its end and the return
BuildGraphIter ==
  /\ pc = "loop"
  /\ IF triples.t # "list"
     THEN /\ pc' = "crashed"
          /\ error' = "TypeError"
          /\ UNCHANGED <<graph, i>>
     ELSE IF i > Len(triples.v)
     THEN /\ pc' = "render"
          /\ UNCHANGED <<graph, i, error>>
     ELSE LET r == AddTriple(graph, triples.v[i]) IN
          /\ graph' = r.g
          /\ error' = r.err
          /\ pc' = IF r.err = "none" THEN "loop" ELSE "crashed"
          /\ i' = IF r.err = "none" THEN i + 1 ELSE i
  /\ UNCHANGED <<input_type, fetch, content, clicked, banners, calls,
                 response_text, triples, stages>>

\* lines 147-149: visualize_graph, the success banner, the embedded page
Render ==
  /\ pc = "render"
  /\ stages' = stages \cup {"renderer"}
  /\ banners' = banners \cup {"success", "embedded"}
  /\ pc' = "done"
  /\ UNCHANGED <<input_type, fetch, content, clicked, calls, response_text,
                 triples, graph, i, error>>

\* ------------------------------------------------------- specifications
\* the whole script
Init ==
  /\ pc = "radio"
  /\ input_type = "text"
  /\ fetch = "none"
  /\ content = <<>>
  /\ clicked = FALSE
  /\ banners = {}
  /\ calls = 0
  /\ response_text = <<>>
  /\ triples = NoValue
  /\ graph = EmptyGraph
  /\ i = 0
  /\ stages = {}
  /\ error = "none"

Next ==
  \/ ChooseInputType
  \/ TextInput
  \/ UploadPdf
  \/ UrlInput
  \/ Button
  \/ Guard
  \/ CallModel
  \/ Parse
  \/ Branch
  \/ BuildGraphInit
  \/ BuildGraphIter
  \/ Render

Spec == Init /\ [][Next]_vars

\* lines 143-151 on every response text up to MaxLen characters
InitHandler ==
  /\ pc = "parse"
  /\ input_type = "text"
  /\ fetch = "none"
  /\ content = <<"x">>
  /\ clicked = TRUE
  /\ banners = {}
  /\ calls = 1
  /\ response_text \in Texts(MaxLen)
  /\ triples = NoValue
  /\ graph = EmptyGraph
  /\ i = 0
  /\ stages = {"extractor"}
  /\ error = "none"

NextHandler ==
  \/ Parse
  \/ Branch
  \/ BuildGraphInit
  \/ BuildGraphIter
  \/ Render

SpecHandler == InitHandler /\ [][NextHandler]_vars

\* build_graph on every well-formed triple list up to MaxTriples triples
Entities == {"a", "b"}
Relations == {"r", "q"}
WellFormed == {ObjValue([subject |-> s, relation |-> r, object |-> o]) :
                 s \in Entities, r \in Relations, o \in Entities}
TripleLists(n) == UNION {[1..k -> WellFormed] : k \in 0..n}

InitBuild ==
  /\ pc = "build"
  /\ input_type = "text"
  /\ fetch = "none"
  /\ content = <<"x">>
  /\ clicked = TRUE
  /\ banners = {}
  /\ calls = 1
  /\ response_text = <<>>
  /\ \E l \in TripleLists(MaxTriples) : triples = ListValue(l)
  /\ graph = EmptyGraph
  /\ i = 0
  /\ stages = {"extractor", "parser"}
  /\ error = "none"

NextBuild ==
  \/ BuildGraphInit
  \/ BuildGraphIter

SpecBuild == InitBuild /\ [][NextBuild]_vars

\* ------------------------------------------------------------ properties
Fields == {"subject", "relation", "object"}
WellFormedItem(item) == item.t = "obj" /\ Fields \subseteq DOMAIN item.v
MissingField(item) == item.t = "obj" /\ ~(Fields \subseteq DOMAIN item.v)

Prefix(s, k) == SubSeq(s, 1, k)
Suffix(s, k) == SubSeq(s, k + 1, Len(s))

\* the text is a valid JSON array whose elements are all triples
IsTripleArrayText(a) ==
  LET r == JsonLoads(a) IN
  /\ LStrip(a) # <<>>
  /\ Head(LStrip(a)) = "["
  /\ r.ok
  /\ r.v.t = "list"
  /\ \A k \in 1..Len(r.v.v) : WellFormedItem(r.v.v[k])

\* the subjects and objects of the first n triples of l
EndsOf(l, n) == {l[k].v.subject : k \in 1..n} \cup {l[k].v.object : k \in 1..n}

\* C1: when build_graph returns for a well-formed triple list, the graph has
\* as many edges as the list has triples (repeated subject/object pairs are
\* kept as parallel edges).
C1_EdgeCountEqualsTripleCount ==
  pc = "render" => Cardinality(DOMAIN graph.adj) = Len(triples.v)

\* C2: once parse_relations has run on a response text without '[', its
\* result is the empty list, a parse error has been reported, and the request
\* has not crashed.
C2_NoBracketGivesEmptyListAndError ==
  (pc # "parse" /\ Find(response_text, "[") = -1) =>
    /\ triples = EmptyList
    /\ "parse_error" \in banners
    /\ error = "none"

\* C3 as stated: for every split of the response text into leading prose P and
\* a valid JSON array A of triples, parse_relations(P + A) returned what
\* parse_relations(A) returns -- whatever P is.
C3_AnyProseThenArrayParsesAsArray ==
  pc # "parse" =>
    \A k \in 0..Len(response_text) :
      IsTripleArrayText(Suffix(response_text, k)) =>
        triples = ParseRelations(Suffix(response_text, k)).value

\* C3 amended: for every split of the response text into leading prose P that
\* holds no '[' and a valid JSON array A of triples, parse_relations(P + A)
\* returned what parse_relations(A) returns.
C3_BracketFreeProseThenArrayParsesAsArray ==
  pc # "parse" =>
    \A k \in 0..Len(response_text) :
      (/\ IsTripleArrayText(Suffix(response_text, k))
       /\ Find(Prefix(response_text, k), "[") = -1) =>
        triples = ParseRelations(Suffix(response_text, k)).value

\* a response with bracket-free prose before a non-empty array has been parsed
C3_Witness ==
  /\ pc # "parse"
  /\ \E k \in 1..Len(response_text) :
       /\ IsTripleArrayText(Suffix(response_text, k))
       /\ Find(Prefix(response_text, k), "[") = -1
       /\ triples.t = "list"
       /\ Len(triples.v) > 0

\* C4: after a URL fetch that raised or that returned a non-2xx status, the
\* content is empty and the fetch error is shown on the page.
C4_FailedFetchLeavesContentEmpty ==
  (pc \notin {"radio", "url"} /\ fetch \in {"raised", "non2xx"}) =>
    /\ content = <<>>
    /\ "url_error" \in banners

\* C5: when Generate is clicked with empty content, the remote model is never
\* called, no stage runs, the run ends at the guard, and the warning is shown.
C5_EmptyContentIsBlocked ==
  (clicked /\ content = <<>>) =>
    /\ calls = 0
    /\ stages = {}
    /\ pc \in {"guard", "done"}
    /\ (pc = "done" => "empty_warning" \in banners)

\* Generate was clicked after a failed URL fetch and the run ended with the warning
C5_Witness ==
  /\ clicked
  /\ content = <<>>
  /\ fetch = "raised"
  /\ pc = "done"
  /\ "empty_warning" \in banners

\* C6: during and after build_graph on a well-formed list, the node set is
\* exactly the set of subjects and objects of the triples inserted so far.
C6_NodeSetIsSubjectsAndObjects ==
  pc \in {"loop", "render"} => graph.nodes = EndsOf(triples.v, i - 1)

\* build_graph returned for a list with a self-loop triple and a repeated string
C6_Witness ==
  /\ pc = "render"
  /\ Len(triples.v) >= 2
  /\ \E k \in 1..Len(triples.v) : triples.v[k].v.subject = triples.v[k].v.object
  /\ Cardinality(graph.nodes) = 2

\* C7: the builder runs only if the parser returned a non-empty list; a run
\* that ends with anything else from the parser has shown the warning and
\* built nothing.
C7_BuildOnlyOnNonEmptyTriples ==
  LET nonEmptyList == triples.t = "list" /\ Len(triples.v) > 0 IN
  /\ "builder" \in stages => nonEmptyList
  /\ ("parser" \in stages /\ ~nonEmptyList /\ pc \in {"done", "crashed"}) =>
       /\ "no_relationships" \in banners
       /\ stages \cap {"builder", "renderer"} = {}
       /\ banners \cap {"success", "embedded"} = {}

\* C8: when the parsed array's first unusable entry is a triple missing a
\* field, the parser returned the array without an error, the request ends in
\* a KeyError raised by build_graph at that entry, and nothing is rendered.
C8_MissingFieldIsFatalInBuild ==
  (triples.t = "list") =>
    \A k \in 1..Len(triples.v) :
      (/\ MissingField(triples.v[k])
       /\ \A j \in 1..(k - 1) : WellFormedItem(triples.v[j])) =>
        /\ "parse_error" \notin banners
        /\ pc \in {"branch", "build", "loop", "crashed"}
        /\ (pc = "loop" => i <= k)
        /\ (pc = "crashed" => error = "KeyError" /\ i = k)
        /\ "renderer" \notin stages
        /\ banners \cap {"success", "embedded", "no_relationships"} = {}

\* the request crashed at the second triple, after a well-formed first one
C8_Witness ==
  /\ pc = "crashed"
  /\ error = "KeyError"
  /\ i = 2
  /\ WellFormedItem(triples.v[1])
  /\ <<"a", "b">> \in DOMAIN graph.adj

\* C9 as stated: a request whose content is non-empty makes one remote call,
\* before the parser runs; a failed call ends the request with no second call
\* and no later stage.
C9_NonEmptyContentOneRemoteCall ==
  /\ calls <= 1
  /\ pc \in {"parse", "branch", "build", "loop", "render"} => calls = 1
  /\ "parser" \in stages => (calls = 1 /\ "extractor" \in stages)
  /\ error = "RemoteError" =>
       /\ calls = 1
       /\ pc = "crashed"
       /\ stages \cap {"parser", "builder", "renderer"} = {}
  /\ (clicked /\ content # <<>> /\ pc \in {"done", "crashed"}) => calls = 1

\* C9 amended: a request whose content holds a non-whitespace character makes
\* one remote call, before the parser runs; a failed call ends the request
\* with no second call and no later stage.
C9_OneRemoteCallNoRetry ==
  /\ calls <= 1
  /\ pc \in {"parse", "branch", "build", "loop", "render"} => calls = 1
  /\ "parser" \in stages => (calls = 1 /\ "extractor" \in stages)
  /\ error = "RemoteError" =>
       /\ calls = 1
       /\ pc = "crashed"
       /\ stages \cap {"parser", "builder", "renderer"} = {}
  /\ (clicked /\ Strip(content) # <<>> /\ pc \in {"done", "crashed"}) => calls = 1

\* the remote call of a request failed
C9_Witness ==
  /\ error = "RemoteError"
  /\ pc = "crashed"
  /\ calls = 1
  /\ clicked

\* C10: when build_graph returns for a well-formed list, every triple of the
\* list has its edge subject -> object labelled with its relation.
C10_EveryTripleHasItsLabelledEdge ==
  pc = "render" =>
    \A k \in 1..Len(triples.v) :
      LET t == triples.v[k].v IN
      /\ <<t.subject, t.object>> \in DOMAIN graph.adj
      /\ graph.adj[<<t.subject, t.object>>] = t.relation

====
